---- MODULE Spec2Model ----
(***************************************************************************)
(* A model of src/events.py: the document flattener, the thread-safe       *)
(* schema tracker, the batch assembler, the two sink writers with their     *)
(* retry policy, and the paging driver of DataIntegrator.                   *)
(*                                                                         *)
(* Strings of the program are sequences of one-character strings, so that   *)
(* sanitising, suffixing and upper-casing are computed as the code does.    *)
(* The six column names the program itself spells out are one element each: *)
(* they consist of word characters and start with a letter, so the          *)
(* sanitisers and upper() act on them as on their characters.               *)
(***************************************************************************)
EXTENDS Integers, Sequences, FiniteSets, TLC

(***************************************************************************)
(* Characters and strings                                                  *)
(***************************************************************************)
LowerSeq == <<"a","b","c","d","e","f","g","h","i","j","k","l","m",
              "n","o","p","q","r","s","t","u","v","w","x","y","z">>

UpperSeq == <<"A","B","C","D","E","F","G","H","I","J","K","L","M",
              "N","O","P","Q","R","S","T","U","V","W","X","Y","Z">>

DigitSeq == <<"0","1","2","3","4","5","6","7","8","9">>

Range(s) == {s[i] : i \in DOMAIN s}

\* the characters of the model's strings, in code point order
AsciiOrder == <<"$", "-", ".">> \o DigitSeq \o UpperSeq \o <<"_">> \o LowerSeq

\* the column names written out in the program, each as one element
FixedNames == {"full_json_payload", "FULL_JSON_PAYLOAD", "ETL_CREATED_DATE",
               "ETL_LAST_UPDATE_DATE", "CREATED_BY", "TO_PROCESS",
               "EDW_EXTERNAL_SOURCE_SYSTEM"}

\* str.upper() on each character
UpperMap ==
    [c \in Range(AsciiOrder) \cup FixedNames |->
        IF c = "full_json_payload" THEN "FULL_JSON_PAYLOAD"
        ELSE IF \E i \in DOMAIN LowerSeq : LowerSeq[i] = c
        THEN UpperSeq[CHOOSE i \in DOMAIN LowerSeq : LowerSeq[i] = c]
        ELSE c]

UpperChar(c) == UpperMap[c]

\* the character class [0-9a-zA-Z_] of the two sanitisers
WordChars ==
    Range(LowerSeq) \cup Range(UpperSeq) \cup Range(DigitSeq) \cup {"_"} \cup FixedNames

IsWordChar(c) == c \in WordChars

\* str(n) for a natural number n
RECURSIVE IntToStr(_)
IntToStr(n) ==
    IF n < 10 THEN <<DigitSeq[n + 1]>>
    ELSE IntToStr(n \div 10) \o <<DigitSeq[(n % 10) + 1]>>

\* sanitize_key of flatten_json: re.sub, the COL_ prefix, upper()
sanitize_key(key) ==
    LET subbed == [i \in DOMAIN key |-> IF IsWordChar(key[i]) THEN key[i] ELSE "_"]
        prefixed == IF Len(subbed) > 0 /\ subbed[1] \in Range(DigitSeq)
                    THEN <<"C","O","L","_">> \o subbed
                    ELSE subbed
    IN [i \in DOMAIN prefixed |-> UpperChar(prefixed[i])]

(***************************************************************************)
(* Documents: a tree of dicts, lists and scalar leaves.  A dict keeps its   *)
(* entries in insertion order, as a Python dict does.                       *)
(***************************************************************************)
Leaf(x) == [t |-> "leaf", val |-> x, items |-> <<>>]

DictNode(entries) == [t |-> "dict", val |-> 0, items |-> entries]

ListNode(entries) == [t |-> "list", val |-> 0, items |-> entries]

Entry(k, v) == [k |-> k, v |-> v]

\* get_unique_key: the key to use and the registry after the call
get_unique_key(key, path_counts) ==
    IF key \in DOMAIN path_counts
    THEN [key |-> key \o <<"_">> \o IntToStr(path_counts[key] + 1),
          counts |-> [path_counts EXCEPT ![key] = @ + 1]]
    ELSE [key |-> key,
          counts |-> [k \in DOMAIN path_counts \cup {key} |->
                         IF k = key THEN 0 ELSE path_counts[k]]]

\* dict(items): the last pair of a key wins
DictOf(items) ==
    [k \in {items[i][1] : i \in DOMAIN items} |->
        items[CHOOSE i \in DOMAIN items :
                 /\ items[i][1] = k
                 /\ \A j \in DOMAIN items : items[j][1] = k => j <= i][2]]

\* d.items() as a list (the keys of a dict are distinct, so their order
\* among themselves decides nothing)
RECURSIVE ItemsOf(_)
ItemsOf(d) ==
    IF DOMAIN d = {} THEN <<>>
    ELSE LET k == CHOOSE x \in DOMAIN d : TRUE
         IN <<(<<k, d[k]>>)>> \o ItemsOf([x \in DOMAIN d \ {k} |-> d[x]])

EmptyDict == [k \in {} |-> 0]

RECURSIVE flatten_json(_, _)
RECURSIVE FlattenLoop(_, _, _, _, _)

\* the for loops of flatten_json over a dict's items or a list's elements:
\* each call of flatten_json has its own items and its own path_counts
FlattenLoop(data, i, parent_key, items, path_counts) ==
    IF i > Len(data.items) THEN items
    ELSE LET k == IF data.t = "dict" THEN data.items[i].k ELSE IntToStr(i - 1)
             v == data.items[i].v
             new_key == sanitize_key(IF parent_key # <<>>
                                     THEN parent_key \o <<"_">> \o k
                                     ELSE k)
         IN IF v.t \in {"dict", "list"}
            THEN FlattenLoop(data, i + 1, parent_key,
                             items \o ItemsOf(flatten_json(v, new_key)), path_counts)
            ELSE LET u == get_unique_key(new_key, path_counts)
                 IN FlattenLoop(data, i + 1, parent_key,
                                Append(items, <<u.key, v.val>>), u.counts)

flatten_json(data, parent_key) ==
    IF data.t \in {"dict", "list"}
    THEN DictOf(FlattenLoop(data, 1, parent_key, <<>>, EmptyDict))
    ELSE DictOf(<<(<<get_unique_key(sanitize_key(parent_key), EmptyDict).key, data.val>>)>>)

\* the scalar leaves of a document
RECURSIVE LeafCount(_)
RECURSIVE LeafCountSeq(_, _)
LeafCountSeq(entries, i) ==
    IF i > Len(entries) THEN 0
    ELSE LeafCount(entries[i].v) + LeafCountSeq(entries, i + 1)

LeafCount(data) ==
    IF data.t = "leaf" THEN 1 ELSE LeafCountSeq(data.items, 1)


(***************************************************************************)
(* Bounds of the model                                                     *)
(***************************************************************************)
\* entries of one dict or list of a document handed to flatten_json
MaxEntries == 2

\* threads calling the schema tracker concurrently
NumThreads == 2

\* calls the threads make on the schema tracker in one behaviour
MaxCalls == 3

\* documents of one source collection
MaxDocs == 2

\* pages one collection's paging loop fetches in one behaviour
MaxBatches == 3

\* the page sizes config.batch_size is drawn from: 1..MaxBatchSize
MaxBatchSize == 2

\* the ALTERs of one attempt that succeed before one raises, at most
MaxAltersBeforeError == 1

\* warehouse connections opened in one behaviour of the callers of the pool
MaxConns == 6

VARIABLES
    \* flatten_json applied to one document: position, argument, result
    fl_pc, fl_doc, fl_out,
    \* ThreadSafeSchemaTracker: all_fields, batch_schemas, batch_count, _lock
    all_fields, batch_schemas, batch_count, lock,
    \* the threads that call the tracker: position, argument, returned value,
    \* number of calls begun, column sets of the calls that have returned
    th_pc, th_fields, th_ret, calls, completed,
    \* Config: collections, batch_size; the source store's collections
    collections, batch_size, source,
    \* read_mongodb_collection, per collection: position in the coroutine
    pc,
    \* its locals last_id, batch_num, batch, df_flattened, all_batches, and the
    \* pages the source has delivered to it so far
    last_id, batch_num, batch, df_flattened, all_batches, pages,
    \* its locals final_fields, processed_batches, df_final
    final_fields, processed_batches, df_final,
    \* the attempts tenacity has made of _write_to_adls and of
    \* _write_to_snowflake; of the latest attempt of _write_to_snowflake, if
    \* it got to its load step: existing_cols, the ALTERs it executed and the
    \* table as the load step started; and the target table as it was when
    \* _write_to_snowflake was first called; and how the latest attempt of a
    \* sink write ended, as tenacity sees it
    adls_attempts, sf_attempts, existing_cols, alters, at_load, table0, outcome,
    \* the sinks: the Delta table at the collection's path, the warehouse table
    adls, table,
    \* _snowflake_pool, the connections that are open, connections opened so
    \* far, and for each connection the callers that hold it (that got it from
    \* get_snowflake_connection and have not returned it)
    pool, open_conns, conn_count, held,
    \* run_integration's outcome, whether main has run close_connections,
    \* whether the source client is closed, the coroutine holding the event loop
    run_result, closed, mongo_closed, loop_owner

flattenVars == <<fl_pc, fl_doc, fl_out>>

trackerVars == <<all_fields, batch_schemas, batch_count, lock>>

threadVars == <<th_pc, th_fields, th_ret, calls, completed>>

cfgVars == <<collections, batch_size, source>>

pageVars == <<last_id, batch_num, batch, df_flattened, all_batches, pages>>

asmVars == <<final_fields, processed_batches, df_final>>

writeVars == <<adls_attempts, sf_attempts, existing_cols, alters, at_load, table0,
               outcome>>

sinkVars == <<adls, table>>

poolVars == <<pool, open_conns, conn_count, held>>

runVars == <<run_result, closed, mongo_closed, loop_owner>>

pipelineVars == <<cfgVars, pc, pageVars, asmVars, writeVars, sinkVars, poolVars, runVars>>

vars == <<flattenVars, trackerVars, threadVars, pipelineVars>>

(***************************************************************************)
(* flatten_json on one document                                            *)
(***************************************************************************)
\* raw keys of the documents: mixed case, a separator, a non-word character,
\* a key that looks like a suffixed name, a leading digit
RawKeys == { <<"a">>, <<"A">>, <<"b">>, <<"a","_","b">>, <<"a","-","b">>,
             <<"a","_","1">>, <<"1">> }

\* keys of the nested dicts
NestedKeys == { <<"b">>, <<"1">> }

\* sequences without repetition of at most n elements of S
RECURSIVE SeqsNoRep(_, _)
SeqsNoRep(S, n) ==
    IF n = 0 THEN {<<>>}
    ELSE LET shorter == SeqsNoRep(S, n - 1)
         IN shorter \cup UNION {{Append(s, x) : x \in S \ Range(s)} :
                                    s \in {q \in shorter : Len(q) = n - 1}}

\* the values of a document's top-level entries: a scalar, a dict of scalars,
\* a list of scalars
NestedValues(n) ==
    {Leaf(1)}
    \cup {DictNode([i \in DOMAIN ks |-> Entry(ks[i], Leaf(1))]) :
             ks \in SeqsNoRep(NestedKeys, n)}
    \cup {ListNode([i \in 1..m |-> Entry(<<>>, Leaf(1))]) : m \in 0..n}

\* the documents with at most n entries in each dict or list
Docs(n) ==
    UNION {{DictNode([i \in DOMAIN ks |-> Entry(ks[i], vs[i])]) :
               vs \in [DOMAIN ks -> NestedValues(n)]} :
           ks \in SeqsNoRep(RawKeys, n)}

FlattenIdle == fl_pc = "idle" /\ fl_doc = DictNode(<<>>) /\ fl_out = EmptyDict

FlattenInit == fl_pc = "input" /\ fl_doc \in Docs(MaxEntries) /\ fl_out = EmptyDict

\* flatten_json(data) as flatten_json_udf_py calls it
FlattenDoc ==
    /\ fl_pc = "input"
    /\ fl_out' = flatten_json(fl_doc, <<>>)
    /\ fl_pc' = "done"
    /\ UNCHANGED <<fl_doc, trackerVars, threadVars, pipelineVars>>

(***************************************************************************)
(* ThreadSafeSchemaTracker                                                 *)
(***************************************************************************)
ColA == <<"A">>

ColB == <<"B">>

ColC == <<"C">>

\* the column sets the threads hand to add_batch_schema
FieldSets == SUBSET {ColA, ColB, ColC}

Threads == 1..NumThreads

TrackerInit ==
    /\ all_fields = {}
    /\ batch_schemas = <<>>
    /\ batch_count = 0
    /\ lock = 0

ThreadsIdle ==
    /\ th_pc = [t \in Threads |-> "idle"]
    /\ th_fields = [t \in Threads |-> {}]
    /\ th_ret = [t \in Threads |-> {}]
    /\ calls = 0
    /\ completed = {}

\* a tracker that keeps only the latest batch's fields: all_fields = fields
UpdateAllFieldsReplace(current, fields) == fields

\* self.all_fields.update(fields)
UpdateAllFields(current, fields) == current \cup fields

\* a thread calls add_batch_schema(fields) and reaches "with self._lock"
BeginAdd(t) ==
    /\ th_pc[t] = "idle"
    /\ calls < MaxCalls
    /\ \E fields \in FieldSets : th_fields' = [th_fields EXCEPT ![t] = fields]
    /\ th_pc' = [th_pc EXCEPT ![t] = "add_wait"]
    /\ calls' = calls + 1
    /\ UNCHANGED <<flattenVars, pipelineVars, trackerVars, th_ret, completed>>

\* with self._lock: (entry)
AddAcquire(t) ==
    /\ th_pc[t] = "add_wait"
    /\ lock = 0
    /\ lock' = t
    /\ th_pc' = [th_pc EXCEPT ![t] = "add_count"]
    /\ UNCHANGED <<flattenVars, pipelineVars, all_fields, batch_schemas, batch_count,
                   th_fields, th_ret, calls, completed>>

\* self.batch_count += 1
AddCount(t) ==
    /\ th_pc[t] = "add_count"
    /\ batch_count' = batch_count + 1
    /\ th_pc' = [th_pc EXCEPT ![t] = "add_store"]
    /\ UNCHANGED <<flattenVars, pipelineVars, all_fields, batch_schemas, lock,
                   th_fields, th_ret, calls, completed>>

\* self.batch_schemas[f"batch_{self.batch_count}"] = fields
AddStore(t) ==
    /\ th_pc[t] = "add_store"
    /\ batch_schemas' = [k \in DOMAIN batch_schemas \cup {batch_count} |->
                            IF k = batch_count THEN th_fields[t] ELSE batch_schemas[k]]
    /\ th_pc' = [th_pc EXCEPT ![t] = "add_update"]
    /\ UNCHANGED <<flattenVars, pipelineVars, all_fields, batch_count, lock,
                   th_fields, th_ret, calls, completed>>

\* self.all_fields.update(fields): the elements of fields are added one
\* after the other, in some order; the call is over when all are in the set
AddUpdate(t) ==
    /\ th_pc[t] = "add_update"
    /\ IF th_fields[t] \subseteq all_fields
       THEN /\ th_pc' = [th_pc EXCEPT ![t] = "add_release"]
            /\ UNCHANGED all_fields
       ELSE /\ \E f \in th_fields[t] \ all_fields :
                  all_fields' = UpdateAllFields(all_fields, {f})
            /\ UNCHANGED th_pc
    /\ UNCHANGED <<flattenVars, pipelineVars, batch_schemas, batch_count, lock,
                   th_fields, th_ret, calls, completed>>

\* the with block ends: the lock is released and the call returns
AddRelease(t) ==
    /\ th_pc[t] = "add_release"
    /\ lock = t
    /\ lock' = 0
    /\ th_pc' = [th_pc EXCEPT ![t] = "idle"]
    /\ completed' = completed \cup {th_fields[t]}
    /\ UNCHANGED <<flattenVars, pipelineVars, all_fields, batch_schemas, batch_count,
                   th_fields, th_ret, calls>>

\* a thread calls get_unified_schema() and reaches "with self._lock"
BeginGet(t) ==
    /\ th_pc[t] = "idle"
    /\ calls < MaxCalls
    /\ th_pc' = [th_pc EXCEPT ![t] = "get_wait"]
    /\ calls' = calls + 1
    /\ UNCHANGED <<flattenVars, pipelineVars, trackerVars, th_fields, th_ret, completed>>

\* a get_unified_schema that does not take the lock
GetWithoutLock(t) ==
    /\ th_pc[t] = "get_wait"
    /\ th_pc' = [th_pc EXCEPT ![t] = "get_copy"]
    /\ UNCHANGED <<flattenVars, pipelineVars, trackerVars, th_fields, th_ret, calls,
                   completed>>

\* with self._lock: (entry)
GetAcquire(t) ==
    /\ th_pc[t] = "get_wait"
    /\ lock = 0
    /\ lock' = t
    /\ th_pc' = [th_pc EXCEPT ![t] = "get_copy"]
    /\ UNCHANGED <<flattenVars, pipelineVars, all_fields, batch_schemas, batch_count,
                   th_fields, th_ret, calls, completed>>

\* return self.all_fields.copy(): the copy is made with the lock held
GetCopy(t) ==
    /\ th_pc[t] = "get_copy"
    /\ th_ret' = [th_ret EXCEPT ![t] = all_fields]
    /\ th_pc' = [th_pc EXCEPT ![t] = "get_release"]
    /\ UNCHANGED <<flattenVars, pipelineVars, trackerVars, th_fields, calls, completed>>

\* the with block ends and the copy is returned
GetRelease(t) ==
    /\ th_pc[t] = "get_release"
    /\ lock = t
    /\ lock' = 0
    /\ th_pc' = [th_pc EXCEPT ![t] = "idle"]
    /\ UNCHANGED <<flattenVars, pipelineVars, all_fields, batch_schemas, batch_count,
                   th_fields, th_ret, calls, completed>>

TrackerNext ==
    \/ \E t \in Threads : BeginAdd(t)
    \/ \E t \in Threads : AddAcquire(t)
    \/ \E t \in Threads : AddCount(t)
    \/ \E t \in Threads : AddStore(t)
    \/ \E t \in Threads : AddUpdate(t)
    \/ \E t \in Threads : AddRelease(t)
    \/ \E t \in Threads : BeginGet(t)
    \/ \E t \in Threads : GetAcquire(t)
    \/ \E t \in Threads : GetCopy(t)
    \/ \E t \in Threads : GetRelease(t)

(***************************************************************************)
(* Spark DataFrames: an ordered list of column names and a list of rows,    *)
(* each row a list of cells in column order.  A cell is abstracted to       *)
(* whether it is null ("null") or holds a value ("value").                  *)
(***************************************************************************)
RankMap == [c \in Range(AsciiOrder) |-> CHOOSE i \in DOMAIN AsciiOrder : AsciiOrder[i] = c]

\* ord(c), up to order
CharRank(c) == RankMap[c]

\* a < b for Python strings
RECURSIVE StrLess(_, _)
StrLess(a, b) ==
    IF b = <<>> THEN FALSE
    ELSE IF a = <<>> THEN TRUE
    ELSE IF Head(a) = Head(b) THEN StrLess(Tail(a), Tail(b))
    ELSE CharRank(Head(a)) < CharRank(Head(b))

\* sorted(S) for a set of strings
RECURSIVE Sorted(_)
Sorted(S) ==
    IF S = {} THEN <<>>
    ELSE LET least == CHOOSE x \in S : \A y \in S \ {x} : StrLess(x, y)
         IN <<least>> \o Sorted(S \ {least})

\* str.upper()
UpperStr(name) == [i \in DOMAIN name |-> UpperChar(name[i])]

\* DataIntegrator._sanitize_column_name
sanitize_column_name(column_name) ==
    LET subbed == [i \in DOMAIN column_name |->
                      IF IsWordChar(column_name[i]) THEN column_name[i] ELSE "_"]
        prefixed == IF Len(subbed) > 0 /\ subbed[1] \in Range(DigitSeq)
                    THEN <<"C","O","L","_">> \o subbed
                    ELSE subbed
    IN UpperStr(prefixed)

full_json_payload == <<"full_json_payload">>

FULL_JSON_PAYLOAD == <<"FULL_JSON_PAYLOAD">>

ETL_CREATED_DATE == <<"ETL_CREATED_DATE">>

ETL_LAST_UPDATE_DATE == <<"ETL_LAST_UPDATE_DATE">>

CREATED_BY == <<"CREATED_BY">>

TO_PROCESS == <<"TO_PROCESS">>

EDW_EXTERNAL_SOURCE_SYSTEM == <<"EDW_EXTERNAL_SOURCE_SYSTEM">>

DataFrame(cols, rows) == [cols |-> cols, rows |-> rows]

EmptyFrame == DataFrame(<<>>, <<>>)

\* the index of a column, by Spark's case-insensitive name resolution (0: none)
ColumnIndex(df, name) ==
    IF \E i \in DOMAIN df.cols : UpperStr(df.cols[i]) = UpperStr(name)
    THEN CHOOSE i \in DOMAIN df.cols : UpperStr(df.cols[i]) = UpperStr(name)
    ELSE 0

\* df.withColumn(name, <a non-null expression>)
WithColumn(df, name) ==
    LET at == ColumnIndex(df, name)
    IN IF at = 0
       THEN DataFrame(Append(df.cols, name),
                      [r \in DOMAIN df.rows |-> Append(df.rows[r], "value")])
       ELSE DataFrame([df.cols EXCEPT ![at] = name],
                      [r \in DOMAIN df.rows |-> [df.rows[r] EXCEPT ![at] = "value"]])

\* the cell of a row under a column name, null when the frame lacks the column
CellOf(df, r, name) ==
    IF ColumnIndex(df, name) = 0 THEN "null" ELSE df.rows[r][ColumnIndex(df, name)]

\* a.unionByName(b, allowMissingColumns=True)
UnionByName(a, b) ==
    LET extra == SelectSeq(b.cols, LAMBDA n : ColumnIndex(a, n) = 0)
        cols == a.cols \o extra
    IN DataFrame(cols,
                 [r \in DOMAIN a.rows |-> [i \in DOMAIN cols |-> CellOf(a, r, cols[i])]]
                 \o [r \in DOMAIN b.rows |-> [i \in DOMAIN cols |-> CellOf(b, r, cols[i])]])

\* the set of fields of collect_all_fields: the keys of every flattened row
BatchFields(df_flat) == UNION {DOMAIN df_flat[r] : r \in DOMAIN df_flat}

\* the loop of process_batch_with_schema that builds sanitized_map: the n-th
\* sorted field's output name, with name_counts as it stands before it
RECURSIVE SanitizedNames(_, _, _)
SanitizedNames(fields, i, name_counts) ==
    IF i > Len(fields) THEN <<>>
    ELSE LET sanitized == sanitize_column_name(fields[i])
         IN IF sanitized \in DOMAIN name_counts
            THEN <<sanitized \o <<"_">> \o IntToStr(name_counts[sanitized] + 1)>>
                 \o SanitizedNames(fields, i + 1,
                                   [name_counts EXCEPT ![sanitized] = @ + 1])
            ELSE <<sanitized>>
                 \o SanitizedNames(fields, i + 1,
                                   [k \in DOMAIN name_counts \cup {sanitized} |->
                                       IF k = sanitized THEN 1 ELSE name_counts[k]])

\* a select without the coalesce to null: a value in every cell
GetItemNeverNull(row_map, field) == "value"

\* coalesce(col("data_map").getItem(field), lit(None))
GetItem(row_map, field) ==
    IF field \in DOMAIN row_map THEN "value" ELSE "null"

\* process_batch_with_schema(df, all_fields) on a flattened batch
process_batch_with_schema(df_flat, fields) ==
    IF fields = {}
    THEN DataFrame(<<full_json_payload>>, [r \in DOMAIN df_flat |-> <<"value">>])
    ELSE LET ordered == Sorted(fields)
             names == SanitizedNames(ordered, 1, EmptyDict)
         IN DataFrame(<<full_json_payload>> \o names,
                      [r \in DOMAIN df_flat |->
                          <<"value">> \o [i \in DOMAIN ordered |->
                                             GetItem(df_flat[r], ordered[i])]])

\* the columns _infer_and_cast_types leaves alone
CastExempt == {FULL_JSON_PAYLOAD, ETL_CREATED_DATE, ETL_LAST_UPDATE_DATE,
               CREATED_BY, TO_PROCESS, EDW_EXTERNAL_SOURCE_SYSTEM}

\* the two when(...).otherwise(col) chains on one cell: a null cell matches no
\* branch and stays null, a value is replaced by a value
CastCell(cell) == IF cell = "null" THEN "null" ELSE "value"

\* _infer_and_cast_types: withColumn on every column not exempt
infer_and_cast_types(df) ==
    DataFrame(df.cols,
              [r \in DOMAIN df.rows |->
                  [i \in DOMAIN df.cols |->
                      IF df.cols[i] \in CastExempt THEN df.rows[r][i]
                      ELSE CastCell(df.rows[r][i])]])

\* _add_metadata_columns
add_metadata_columns(df) ==
    WithColumn(WithColumn(WithColumn(WithColumn(WithColumn(df,
        ETL_CREATED_DATE), ETL_LAST_UPDATE_DATE), CREATED_BY), TO_PROCESS),
        EDW_EXTERNAL_SOURCE_SYSTEM)

\* df_merged: processed_batches[0] united by name with the rest, in order
RECURSIVE MergeBatches(_, _, _)
MergeBatches(merged, batches, i) ==
    IF i > Len(batches) THEN merged
    ELSE MergeBatches(UnionByName(merged, batches[i]), batches, i + 1)

(***************************************************************************)
(* The source store and the configuration                                  *)
(***************************************************************************)
AllCollections == {"events", "leads"}

id_key == <<"_","i","d">>

\* a document of the source store: its dict, "_id" first, whether
\* json_util.dumps can serialize it, and whether flatten_json_udf_py gets
\* through its try block on it
MongoDoc(id, body, ok, flattens) ==
    [doc |-> DictNode(<<Entry(id_key, Leaf(id))>> \o body), serializable |-> ok,
     flattens |-> flattens]

\* doc["_id"]
IdOf(d) == d.doc.items[CHOOSE i \in DOMAIN d.doc.items : d.doc.items[i].k = id_key].v.val

\* the bodies of the documents: {a, b}, {a: {b}, c} with a nested value, and
\* a document {b} that cannot be serialized
BodyChoices ==
    { [body |-> <<Entry(<<"a">>, Leaf(1)), Entry(<<"b">>, Leaf(1))>>, ok |-> TRUE],
      [body |-> <<Entry(<<"a">>, DictNode(<<Entry(<<"b">>, Leaf(1))>>)),
                  Entry(<<"c">>, Leaf(1))>>, ok |-> TRUE],
      [body |-> <<Entry(<<"b">>, Leaf(1))>>, ok |-> FALSE] }

\* the identifiers of a collection of at most n documents: consecutive
\* integers counting up from 0 or from 1
ConsecutiveIds(n) ==
    {[i \in 1..m |-> first + i - 1] : m \in 0..n, first \in {0, 1}}

\* the collections the source may hold: documents with distinct identifiers,
\* in the order of sort("_id", 1)
Sources(n) ==
    UNION {{[i \in DOMAIN ids |-> MongoDoc(ids[i], bs[i].body, bs[i].ok, TRUE)] :
               bs \in [DOMAIN ids -> BodyChoices]} :
           ids \in ConsecutiveIds(n)}

BatchSizes == 1..MaxBatchSize

(***************************************************************************)
(* The sinks                                                               *)
(***************************************************************************)
\* stop_after_attempt of the retry around _write_to_adls
AdlsStopAfterAttempt == 3

\* a retry that allows one attempt more
OneMoreAttempt == 3 + 1

\* stop_after_attempt of the retry around _write_to_snowflake
SnowflakeStopAfterAttempt == 3

\* the capacity return_snowflake_connection tests
PoolCapacity == 5

NoTable == [exists |-> FALSE, cols |-> {}, rows |-> <<>>]

\* the columns of CREATE TABLE IF NOT EXISTS
CreateColumns == {ETL_CREATED_DATE, ETL_LAST_UPDATE_DATE, CREATED_BY, TO_PROCESS,
                  EDW_EXTERNAL_SOURCE_SYSTEM, FULL_JSON_PAYLOAD}

\* the target table before the run: absent, or left by earlier loads with the
\* columns {A, B}
InitialTables == {NoTable, [exists |-> TRUE, cols |-> {ColA, ColB}, rows |-> <<>>]}

\* cursor.execute(create_sql): CREATE TABLE IF NOT EXISTS
CreateIfNotExists(tbl) ==
    IF tbl.exists THEN tbl
    ELSE [exists |-> TRUE, cols |-> CreateColumns, rows |-> <<>>]

\* ALTER TABLE ... ADD COLUMN col_name: the rows there get a null
AlterAddColumn(tbl, col_name) ==
    [tbl EXCEPT !.cols = @ \cup {col_name},
                !.rows = [r \in DOMAIN tbl.rows |->
                             [n \in DOMAIN tbl.rows[r] \cup {col_name} |->
                                 IF n \in DOMAIN tbl.rows[r] THEN tbl.rows[r][n]
                                 ELSE "null"]]]

RECURSIVE AlterAll(_, _, _)
AlterAll(tbl, names, n) ==
    IF n = 0 THEN tbl ELSE AlterAddColumn(AlterAll(tbl, names, n - 1), names[n])

\* the rows of a DataFrame as the warehouse stores them: by upper-cased name
TableRows(df) ==
    LET upper == [i \in DOMAIN df.cols |-> UpperStr(df.cols[i])]
        at == [n \in Range(upper) |-> CHOOSE i \in DOMAIN upper : upper[i] = n]
    IN [r \in DOMAIN df.rows |-> [n \in DOMAIN at |-> df.rows[r][at[n]]]]

\* a load in mode("append"): the rows are added to the rows there
LoadAppend(tbl, df) ==
    [exists |-> TRUE,
     cols |-> tbl.cols \cup {UpperStr(df.cols[i]) : i \in DOMAIN df.cols},
     rows |-> tbl.rows \o TableRows(df)]

\* df.write.format("snowflake").mode("overwrite").save(): SaveMode.Overwrite
\* with no truncate_table option replaces the table by the DataFrame, columns
\* and rows
LoadOverwrite(tbl, df) ==
    [exists |-> TRUE,
     cols |-> {UpperStr(df.cols[i]) : i \in DOMAIN df.cols},
     rows |-> TableRows(df)]

\* a loop over df.schema.fields that stops one missing column early
MissingColumnsButLast(df, existing) ==
    LET upper == [i \in DOMAIN df.cols |-> UpperStr(df.cols[i])]
        absent == SelectSeq(upper, LAMBDA n : n \notin existing)
    IN SubSeq(absent, 1, Len(absent) - 1)

\* the loop "for field in df.schema.fields": the columns it issues an ALTER
\* for, in order
MissingColumns(df, existing) ==
    LET upper == [i \in DOMAIN df.cols |-> UpperStr(df.cols[i])]
    IN SelectSeq(upper, LAMBDA n : n \notin existing)

\* an ALTER ... ADD COLUMN of a column the table has is an SQL error: the
\* first n ALTERs of the loop can all succeed
CanAlter(tbl, names, n) ==
    \A i \in 1..n : /\ names[i] \notin tbl.cols
                    /\ \A j \in 1..(i - 1) : names[j] # names[i]

NoDelta == [exists |-> FALSE, cols |-> <<>>, rows |-> <<>>]

\* write.format("delta").mode("overwrite") with overwriteSchema and mergeSchema
DeltaOverwrite(df) == [exists |-> TRUE, cols |-> df.cols, rows |-> df.rows]

\* a return_snowflake_connection that pools whatever the length of the pool
PoolAfterReturnAlways(p, c) == Append(p, c)

\* return_snowflake_connection(conn) on the pool
PoolAfterReturn(p, c) == IF Len(p) < PoolCapacity THEN Append(p, c) ELSE p

OpenAfterReturn(p, open, c) == IF Len(p) < PoolCapacity THEN open ELSE open \ {c}

(***************************************************************************)
(* read_mongodb_collection, full processing mode                           *)
(***************************************************************************)
NoLastId == [has |-> FALSE, id |-> 0]

\* "if last_id": None and every falsy identifier
Truthy(l) == l.has /\ l.id # 0

\* find(query).sort("_id", 1).limit(batch_size) on the collection
FindPage(docs, l, limit) ==
    LET matching == IF Truthy(l)
                    THEN SelectSeq(docs, LAMBDA d : IdOf(d) > l.id)
                    ELSE docs
    IN SubSeq(matching, 1, IF Len(matching) < limit THEN Len(matching) ELSE limit)

\* the load step of the latest attempt has not started
NoLoad == [started |-> FALSE, tbl |-> NoTable]

NoFrame == [is_none |-> TRUE, rows |-> <<>>]

\* from_json(json_string, MapType(StringType(), StringType())) then to_json:
\* the top-level keys, every value as one string
ToStringMap(doc) ==
    DictNode([i \in DOMAIN doc.items |-> Entry(doc.items[i].k, Leaf(doc.items[i].v.val))])

\* flatten_json_udf_py on the json_data of a document, read back as a map by
\* from_json(col("flattened"), MapType(StringType(), StringType())): the
\* flattened dict, or, from the except clause, json_str itself: the keys of
\* the document as they are
flatten_json_udf_py(d) ==
    IF d.flattens THEN flatten_json(ToStringMap(d.doc), <<>>)
    ELSE LET entries == ToStringMap(d.doc).items
         IN DictOf([i \in DOMAIN entries |-> <<entries[i].k, entries[i].v.val>>])

\* _process_batch_sync: create_dataframe_from_documents skips the documents
\* that do not serialize, flatten_dataframe flattens each json_data
process_batch_sync(docs) ==
    LET json_docs == SelectSeq(docs, LAMBDA d : d.serializable)
    IN IF json_docs = <<>> THEN NoFrame
       ELSE [is_none |-> FALSE,
             rows |-> [r \in DOMAIN json_docs |-> flatten_json_udf_py(json_docs[r])]]

PipelineIdle ==
    /\ collections = {}
    /\ batch_size = 1
    /\ source = [c \in AllCollections |-> <<>>]
    /\ pc = [c \in AllCollections |-> "off"]
    /\ last_id = [c \in AllCollections |-> NoLastId]
    /\ batch_num = [c \in AllCollections |-> 0]
    /\ batch = [c \in AllCollections |-> <<>>]
    /\ df_flattened = [c \in AllCollections |-> NoFrame]
    /\ all_batches = [c \in AllCollections |-> <<>>]
    /\ pages = [c \in AllCollections |-> <<>>]
    /\ final_fields = [c \in AllCollections |-> {}]
    /\ processed_batches = [c \in AllCollections |-> <<>>]
    /\ df_final = [c \in AllCollections |-> EmptyFrame]
    /\ adls_attempts = [c \in AllCollections |-> 0]
    /\ sf_attempts = [c \in AllCollections |-> 0]
    /\ outcome = [c \in AllCollections |-> "none"]
    /\ at_load = [c \in AllCollections |-> NoLoad]
    /\ existing_cols = [c \in AllCollections |-> {}]
    /\ alters = [c \in AllCollections |-> <<>>]
    /\ table0 = [c \in AllCollections |-> NoTable]
    /\ adls = [c \in AllCollections |-> NoDelta]
    /\ table = [c \in AllCollections |-> NoTable]
    /\ pool = <<>>
    /\ open_conns = {}
    /\ conn_count = 0
    /\ held = [conn \in 1..MaxConns |-> 0]
    /\ run_result = "running"
    /\ closed = FALSE
    /\ mongo_closed = FALSE
    /\ loop_owner = "none"

\* run_integration with the configured collections = ["events"]: one task
\* per collection, each at the start of read_mongodb_collection
PipelineInit ==
    /\ collections = {"events"}
    /\ batch_size \in BatchSizes
    /\ source \in [AllCollections -> Sources(MaxDocs)]
    /\ \A c \in AllCollections \ collections : source[c] = <<>>
    /\ pc = [c \in AllCollections |-> IF c \in collections THEN "count" ELSE "off"]
    /\ last_id = [c \in AllCollections |-> NoLastId]
    /\ batch_num = [c \in AllCollections |-> 0]
    /\ batch = [c \in AllCollections |-> <<>>]
    /\ df_flattened = [c \in AllCollections |-> NoFrame]
    /\ all_batches = [c \in AllCollections |-> <<>>]
    /\ pages = [c \in AllCollections |-> <<>>]
    /\ final_fields = [c \in AllCollections |-> {}]
    /\ processed_batches = [c \in AllCollections |-> <<>>]
    /\ df_final = [c \in AllCollections |-> EmptyFrame]
    /\ adls_attempts = [c \in AllCollections |-> 0]
    /\ sf_attempts = [c \in AllCollections |-> 0]
    /\ outcome = [c \in AllCollections |-> "none"]
    /\ at_load = [c \in AllCollections |-> NoLoad]
    /\ existing_cols = [c \in AllCollections |-> {}]
    /\ alters = [c \in AllCollections |-> <<>>]
    /\ adls = [c \in AllCollections |-> NoDelta]
    /\ table \in [AllCollections -> InitialTables]
    /\ \A c \in AllCollections \ collections : table[c] = NoTable
    /\ table0 = table
    /\ pool = <<>>
    /\ open_conns = {}
    /\ conn_count = 0
    /\ held = [conn \in 1..MaxConns |-> 0]
    /\ run_result = "running"
    /\ closed = FALSE
    /\ mongo_closed = FALSE
    /\ loop_owner = "none"

\* run_integration on one DataIntegrator configured with two collections:
\* "events" holds documents with the fields a and b, "leads" documents with a
\* and c; neither target table exists
PipelineInitMulti ==
    /\ collections = AllCollections
    /\ batch_size = 1
    /\ \E n \in 1..MaxDocs :
          source = [c \in AllCollections |->
                       [i \in 1..n |->
                           MongoDoc(i, IF c = "events"
                                       THEN <<Entry(<<"a">>, Leaf(1)), Entry(<<"b">>, Leaf(1))>>
                                       ELSE <<Entry(<<"a">>, Leaf(1)), Entry(<<"c">>, Leaf(1))>>,
                                    TRUE, TRUE)]]
    /\ pc = [c \in AllCollections |-> "count"]
    /\ last_id = [c \in AllCollections |-> NoLastId]
    /\ batch_num = [c \in AllCollections |-> 0]
    /\ batch = [c \in AllCollections |-> <<>>]
    /\ df_flattened = [c \in AllCollections |-> NoFrame]
    /\ all_batches = [c \in AllCollections |-> <<>>]
    /\ pages = [c \in AllCollections |-> <<>>]
    /\ final_fields = [c \in AllCollections |-> {}]
    /\ processed_batches = [c \in AllCollections |-> <<>>]
    /\ df_final = [c \in AllCollections |-> EmptyFrame]
    /\ adls_attempts = [c \in AllCollections |-> 0]
    /\ sf_attempts = [c \in AllCollections |-> 0]
    /\ outcome = [c \in AllCollections |-> "none"]
    /\ at_load = [c \in AllCollections |-> NoLoad]
    /\ existing_cols = [c \in AllCollections |-> {}]
    /\ alters = [c \in AllCollections |-> <<>>]
    /\ adls = [c \in AllCollections |-> NoDelta]
    /\ table = [c \in AllCollections |-> NoTable]
    /\ table0 = table
    /\ pool = <<>>
    /\ open_conns = {}
    /\ conn_count = 0
    /\ held = [conn \in 1..MaxConns |-> 0]
    /\ run_result = "running"
    /\ closed = FALSE
    /\ mongo_closed = FALSE
    /\ loop_owner = "none"

\* the documents of a collection that holds, besides sound documents, ones
\* that do not serialize and ones that do not flatten
FaultyDocs(id) ==
    {MongoDoc(id, body, h.ok, h.flattens) :
        body \in {<<Entry(<<"a">>, Leaf(1)), Entry(<<"b">>, Leaf(1))>>,
                  <<Entry(<<"a">>, Leaf(1)), Entry(<<"c">>, Leaf(1))>>},
        h \in {[ok |-> TRUE, flattens |-> TRUE], [ok |-> FALSE, flattens |-> TRUE],
               [ok |-> TRUE, flattens |-> FALSE]}}

\* run_integration over one collection of such documents, identifiers 1..n
PipelineInitFaulty ==
    /\ collections = {"events"}
    /\ batch_size \in BatchSizes
    /\ \E n \in 1..MaxDocs :
          \E docs \in [1..n -> UNION {FaultyDocs(i) : i \in 1..n}] :
              /\ \A i \in 1..n : IdOf(docs[i]) = i
              /\ source = [c \in AllCollections |-> IF c = "events" THEN docs ELSE <<>>]
    /\ pc = [c \in AllCollections |-> IF c \in collections THEN "count" ELSE "off"]
    /\ last_id = [c \in AllCollections |-> NoLastId]
    /\ batch_num = [c \in AllCollections |-> 0]
    /\ batch = [c \in AllCollections |-> <<>>]
    /\ df_flattened = [c \in AllCollections |-> NoFrame]
    /\ all_batches = [c \in AllCollections |-> <<>>]
    /\ pages = [c \in AllCollections |-> <<>>]
    /\ final_fields = [c \in AllCollections |-> {}]
    /\ processed_batches = [c \in AllCollections |-> <<>>]
    /\ df_final = [c \in AllCollections |-> EmptyFrame]
    /\ adls_attempts = [c \in AllCollections |-> 0]
    /\ sf_attempts = [c \in AllCollections |-> 0]
    /\ outcome = [c \in AllCollections |-> "none"]
    /\ at_load = [c \in AllCollections |-> NoLoad]
    /\ existing_cols = [c \in AllCollections |-> {}]
    /\ alters = [c \in AllCollections |-> <<>>]
    /\ adls = [c \in AllCollections |-> NoDelta]
    /\ table = [c \in AllCollections |-> NoTable]
    /\ table0 = table
    /\ pool = <<>>
    /\ open_conns = {}
    /\ conn_count = 0
    /\ held = [conn \in 1..MaxConns |-> 0]
    /\ run_result = "running"
    /\ closed = FALSE
    /\ mongo_closed = FALSE
    /\ loop_owner = "none"

\* the event loop is free for coroutine c to run its next synchronous stretch
LoopFree(c) == loop_owner \in {"none", c}

\* await collection.count_documents({}) and the test on total_docs
CountDocuments(c) ==
    /\ pc[c] = "count"
    /\ LoopFree(c)
    /\ pc' = [pc EXCEPT ![c] = IF Len(source[c]) = 0 THEN "returned" ELSE "page"]
    /\ UNCHANGED <<flattenVars, trackerVars, threadVars, cfgVars, pageVars, asmVars,
                   writeVars, sinkVars, poolVars, runVars>>

\* a call on the source store raises PyMongoError: logged and raised again
MongoError(c) ==
    /\ pc[c] \in {"count", "page"}
    /\ LoopFree(c)
    /\ pc' = [pc EXCEPT ![c] = "failed"]
    /\ UNCHANGED <<flattenVars, trackerVars, threadVars, cfgVars, pageVars, asmVars,
                   writeVars, sinkVars, poolVars, runVars>>

\* one turn of "while True" up to the executor call: the query from last_id,
\* await cursor.to_list, break on an empty batch, batch_num += 1
FetchPage(c) ==
    /\ pc[c] = "page"
    /\ LoopFree(c)
    /\ batch_num[c] < MaxBatches
    /\ LET page == FindPage(source[c], last_id[c], batch_size)
       IN IF page = <<>>
          THEN /\ pc' = [pc EXCEPT ![c] = "assemble"]
               /\ UNCHANGED pageVars
          ELSE /\ pc' = [pc EXCEPT ![c] = "process"]
               /\ batch_num' = [batch_num EXCEPT ![c] = @ + 1]
               /\ batch' = [batch EXCEPT ![c] = page]
               /\ pages' = [pages EXCEPT ![c] =
                               Append(@, [i \in DOMAIN page |-> IdOf(page[i])])]
               /\ UNCHANGED <<last_id, df_flattened, all_batches>>
    /\ UNCHANGED <<flattenVars, trackerVars, threadVars, cfgVars, asmVars,
                   writeVars, sinkVars, poolVars, runVars>>

\* await loop.run_in_executor(executor, self._process_batch_sync, batch): the
\* flattened batch, or None when the body raises
ProcessBatchSync(c) ==
    /\ pc[c] = "process"
    /\ \E raised \in BOOLEAN :
          df_flattened' = [df_flattened EXCEPT ![c] =
                              IF raised THEN NoFrame ELSE process_batch_sync(batch[c])]
    /\ pc' = [pc EXCEPT ![c] = "collect"]
    /\ UNCHANGED <<flattenVars, trackerVars, threadVars, cfgVars, last_id, batch_num,
                   batch, all_batches, pages, asmVars, writeVars, sinkVars, poolVars,
                   runVars>>

\* the rest of the turn: collect_all_fields (which registers the batch's
\* fields unless it raises before add_batch_schema), all_batches.append,
\* last_id = batch[-1]["_id"]
CollectBatch(c) ==
    /\ pc[c] = "collect"
    /\ LoopFree(c)
    /\ lock = 0
    /\ IF ~df_flattened[c].is_none /\ df_flattened[c].rows # <<>>
       THEN /\ \E raised \in BOOLEAN :
                  IF raised
                  THEN UNCHANGED <<all_fields, batch_schemas, batch_count>>
                  ELSE /\ batch_count' = batch_count + 1
                       /\ batch_schemas' =
                              [k \in DOMAIN batch_schemas \cup {batch_count + 1} |->
                                  IF k = batch_count + 1
                                  THEN BatchFields(df_flattened[c].rows)
                                  ELSE batch_schemas[k]]
                       /\ all_fields' = UpdateAllFields(all_fields,
                                                        BatchFields(df_flattened[c].rows))
            /\ all_batches' = [all_batches EXCEPT ![c] = Append(@, df_flattened[c].rows)]
       ELSE UNCHANGED <<all_fields, batch_schemas, batch_count, all_batches>>
    /\ last_id' = [last_id EXCEPT ![c] = [has |-> TRUE, id |-> IdOf(batch[c][Len(batch[c])])]]
    /\ pc' = [pc EXCEPT ![c] = "page"]
    /\ UNCHANGED <<flattenVars, lock, threadVars, cfgVars, batch_num, batch, df_flattened,
                   pages, asmVars, writeVars, sinkVars, poolVars, runVars>>

\* after the loop: return when no batch was kept; else final_fields =
\* get_unified_schema(), every batch through process_batch_with_schema and
\* _infer_and_cast_types, unionByName, _add_metadata_columns.  From here to
\* its end the coroutine does not await: it keeps the event loop.
Assemble(c) ==
    /\ pc[c] = "assemble"
    /\ LoopFree(c)
    /\ lock = 0
    /\ IF all_batches[c] = <<>>
       THEN /\ pc' = [pc EXCEPT ![c] = "returned"]
            /\ UNCHANGED <<asmVars, loop_owner>>
       ELSE LET fields == all_fields
                processed == [i \in DOMAIN all_batches[c] |->
                                 infer_and_cast_types(
                                     process_batch_with_schema(all_batches[c][i], fields))]
            IN /\ final_fields' = [final_fields EXCEPT ![c] = fields]
               /\ processed_batches' = [processed_batches EXCEPT ![c] = processed]
               /\ df_final' = [df_final EXCEPT ![c] =
                                  add_metadata_columns(
                                      MergeBatches(processed[1], processed, 2))]
               /\ loop_owner' = c
               /\ pc' = [pc EXCEPT ![c] = "adls"]
    /\ UNCHANGED <<flattenVars, trackerVars, threadVars, cfgVars, pageVars,
                   writeVars, sinkVars, poolVars, run_result, closed, mongo_closed>>

\* one attempt of _write_to_adls: it succeeds, raises before the overwrite
\* took effect, or raises after it did; tenacity calls again unless this was
\* attempt number stop_after_attempt
WriteToAdls(c) ==
    /\ pc[c] = "adls"
    /\ adls_attempts' = [adls_attempts EXCEPT ![c] = @ + 1]
    /\ \E ended \in {"ok", "raised_before", "raised_after"} :
          /\ adls' = IF ended = "raised_before" THEN adls
                     ELSE [adls EXCEPT ![c] = DeltaOverwrite(df_final[c])]
          /\ outcome' = [outcome EXCEPT ![c] = IF ended = "ok" THEN "ok" ELSE "raised"]
          /\ IF ended = "ok"
             THEN /\ pc' = [pc EXCEPT ![c] = "snowflake"]
                  /\ table0' = [table0 EXCEPT ![c] = table[c]]
                  /\ UNCHANGED loop_owner
             ELSE /\ IF adls_attempts[c] + 1 < AdlsStopAfterAttempt
                     THEN UNCHANGED <<pc, loop_owner>>
                     ELSE /\ pc' = [pc EXCEPT ![c] = "failed"]
                          /\ loop_owner' = "none"
                  /\ UNCHANGED table0
    /\ UNCHANGED <<flattenVars, trackerVars, threadVars, cfgVars, pageVars, asmVars,
                   sf_attempts, existing_cols, alters, at_load, table, poolVars,
                   run_result, closed, mongo_closed>>

\* get_snowflake_connection on the pool: the connection handed out (0 when
\* snowflake.connector.connect raised), the pool, the open connections and the
\* count of connections opened
GetConnection(p, open, count, connect_raises) ==
    IF p # <<>>
    THEN [conn |-> p[Len(p)], pool |-> SubSeq(p, 1, Len(p) - 1),
          open |-> open, count |-> count]
    ELSE IF connect_raises
    THEN [conn |-> 0, pool |-> p, open |-> open, count |-> count]
    ELSE [conn |-> count + 1, pool |-> p,
          open |-> open \cup {count + 1}, count |-> count + 1]

\* the steps of _write_to_snowflake, in order; an attempt stops at the step
\* that raises, or at "ok"
SnowflakeSteps == <<"connect", "create", "introspect", "alter", "load", "committed", "ok">>

StepIndex(step) == CHOOSE i \in DOMAIN SnowflakeSteps : SnowflakeSteps[i] = step

\* the attempt gets past the given step
Passes(stop, step) == StepIndex(stop) > StepIndex(step)

\* one attempt of _write_to_snowflake, from get_snowflake_connection to the
\* finally block.  It raises at one step (stop), or at none ("ok"); the ALTER
\* loop raises after n ALTERs, the load raises before its overwrite took
\* effect ("load") or after ("committed").  tenacity calls again unless this
\* was attempt number stop_after_attempt; on success the coroutine logs
\* "Completed processing" and returns.
WriteToSnowflake(c) ==
    /\ pc[c] = "snowflake"
    /\ sf_attempts' = [sf_attempts EXCEPT ![c] = @ + 1]
    /\ \E stop \in Range(SnowflakeSteps) :
       LET got == GetConnection(pool, open_conns, conn_count, stop = "connect")
           created == IF Passes(stop, "create") THEN CreateIfNotExists(table[c])
                      ELSE table[c]
           missing == MissingColumns(df_final[c], created.cols)
           \* the ALTERs the attempt executes without an error
           executed == IF Passes(stop, "alter") THEN {Len(missing)}
                       ELSE IF stop = "alter"
                       THEN {n \in 0..MaxAltersBeforeError : n < Len(missing)}
                       ELSE {0}
       IN /\ stop = "connect" => pool = <<>>
          /\ \E n \in executed :
                LET altered == AlterAll(created, missing, n)
                IN /\ CanAlter(created, missing, n)
                   /\ existing_cols' = [existing_cols EXCEPT ![c] =
                                           IF Passes(stop, "alter") THEN created.cols
                                           ELSE {}]
                   /\ alters' = [alters EXCEPT ![c] =
                                    IF Passes(stop, "alter") THEN missing ELSE <<>>]
                   /\ at_load' = [at_load EXCEPT ![c] =
                                     IF Passes(stop, "alter")
                                     THEN [started |-> TRUE, tbl |-> altered]
                                     ELSE NoLoad]
                   /\ table' = [table EXCEPT ![c] =
                                   IF Passes(stop, "load")
                                   THEN LoadOverwrite(altered, df_final[c])
                                   ELSE altered]
          /\ pool' = IF got.conn # 0 THEN PoolAfterReturn(got.pool, got.conn) ELSE got.pool
          /\ open_conns' = IF got.conn # 0
                           THEN OpenAfterReturn(got.pool, got.open, got.conn)
                           ELSE got.open
          /\ conn_count' = got.count
          /\ outcome' = [outcome EXCEPT ![c] = IF stop = "ok" THEN "ok" ELSE "raised"]
          /\ IF stop = "ok"
             THEN /\ pc' = [pc EXCEPT ![c] = "completed"]
                  /\ loop_owner' = "none"
             ELSE IF sf_attempts[c] + 1 < SnowflakeStopAfterAttempt
                  THEN UNCHANGED <<pc, loop_owner>>
                  ELSE /\ pc' = [pc EXCEPT ![c] = "failed"]
                       /\ loop_owner' = "none"
    /\ UNCHANGED <<flattenVars, trackerVars, threadVars, cfgVars, pageVars, asmVars,
                   adls_attempts, table0, adls, held, run_result, closed, mongo_closed>>

(***************************************************************************)
(* run_integration and main                                                *)
(***************************************************************************)
\* close_connections: the source client and every pooled connection closed
CloseConnections ==
    /\ closed' = TRUE
    /\ mongo_closed' = TRUE
    /\ open_conns' = open_conns \ Range(pool)
    /\ pool' = <<>>

\* a caller checks a connection out: get_snowflake_connection. The test and the
\* pop run under _pool_lock; connect() runs after the lock is released and
\* touches no pool state, so the call is one step
PoolCheckout ==
    /\ \E connect_raises \in BOOLEAN :
          LET got == GetConnection(pool, open_conns, conn_count, connect_raises)
          IN /\ pool = <<>> => conn_count < MaxConns
             /\ connect_raises => pool = <<>>
             /\ pool' = got.pool
             /\ open_conns' = got.open
             /\ conn_count' = got.count
             /\ held' = IF got.conn # 0 THEN [held EXCEPT ![got.conn] = @ + 1] ELSE held
    /\ UNCHANGED <<flattenVars, trackerVars, threadVars, cfgVars, pc, pageVars, asmVars,
                   writeVars, sinkVars, runVars>>

\* a caller checks a connection it holds in: return_snowflake_connection
PoolCheckin ==
    /\ \E conn \in 1..MaxConns :
          /\ held[conn] > 0
          /\ pool' = PoolAfterReturn(pool, conn)
          /\ open_conns' = OpenAfterReturn(pool, open_conns, conn)
          /\ held' = [held EXCEPT ![conn] = @ - 1]
    /\ UNCHANGED <<flattenVars, trackerVars, threadVars, cfgVars, pc, pageVars, asmVars,
                   writeVars, sinkVars, conn_count, runVars>>

\* close_connections, while callers may hold connections
PoolCloseAll ==
    /\ CloseConnections
    /\ UNCHANGED <<flattenVars, trackerVars, threadVars, cfgVars, pc, pageVars, asmVars,
                   writeVars, sinkVars, conn_count, held, run_result, loop_owner>>

PoolNext == PoolCheckout \/ PoolCheckin \/ PoolCloseAll

\* await asyncio.gather(*tasks) returns once every task has returned;
\* run_integration returns to main, whose finally block closes the connections
GatherReturns ==
    /\ run_result = "running"
    /\ loop_owner = "none"
    /\ \A c \in collections : pc[c] \in {"completed", "returned"}
    /\ run_result' = "ok"
    /\ CloseConnections
    /\ UNCHANGED <<flattenVars, trackerVars, threadVars, cfgVars, pc, pageVars, asmVars,
                   writeVars, sinkVars, conn_count, held, loop_owner>>

\* await asyncio.gather(*tasks) raises the first exception of a task;
\* run_integration raises it to main, whose finally block closes the connections
GatherRaises ==
    /\ run_result = "running"
    /\ loop_owner = "none"
    /\ \E c \in collections : pc[c] = "failed"
    /\ run_result' = "error"
    /\ CloseConnections
    /\ UNCHANGED <<flattenVars, trackerVars, threadVars, cfgVars, pc, pageVars, asmVars,
                   writeVars, sinkVars, conn_count, held, loop_owner>>

Next ==
    \/ \E c \in collections : CountDocuments(c)
    \/ \E c \in collections : MongoError(c)
    \/ \E c \in collections : FetchPage(c)
    \/ \E c \in collections : ProcessBatchSync(c)
    \/ \E c \in collections : CollectBatch(c)
    \/ \E c \in collections : Assemble(c)
    \/ \E c \in collections : WriteToAdls(c)
    \/ \E c \in collections : WriteToSnowflake(c)
    \/ GatherReturns
    \/ GatherRaises

(***************************************************************************)
(* Specifications                                                          *)
(***************************************************************************)
\* flatten_json applied to every document of the bounded set
InitFlatten == FlattenInit /\ TrackerInit /\ ThreadsIdle /\ PipelineIdle

SpecFlatten == InitFlatten /\ [][FlattenDoc]_vars

\* threads calling one schema tracker
InitTracker == FlattenIdle /\ TrackerInit /\ ThreadsIdle /\ PipelineIdle

SpecTracker == InitTracker /\ [][TrackerNext]_vars

\* callers of the connection pool of one DataIntegrator
InitPool == FlattenIdle /\ TrackerInit /\ ThreadsIdle /\ PipelineIdle

SpecPool == InitPool /\ [][PoolNext]_vars

\* run_integration over the configured collection, from paging to the sinks
Init == FlattenIdle /\ TrackerInit /\ ThreadsIdle /\ PipelineInit

Spec == Init /\ [][Next]_vars

\* run_integration over two collections that share one DataIntegrator; the
\* sinks are up (no attempt of a sink write raises), the source store may fail
InitMulti == FlattenIdle /\ TrackerInit /\ ThreadsIdle /\ PipelineInitMulti

SinksUp == \A c \in AllCollections : outcome[c] # "raised"

NextSinksUp ==
    \/ \E c \in collections : CountDocuments(c)
    \/ \E c \in collections : MongoError(c)
    \/ \E c \in collections : FetchPage(c)
    \/ \E c \in collections : ProcessBatchSync(c)
    \/ \E c \in collections : CollectBatch(c)
    \/ \E c \in collections : Assemble(c)
    \/ \E c \in collections : WriteToAdls(c) /\ SinksUp'
    \/ \E c \in collections : WriteToSnowflake(c) /\ SinksUp'
    \/ GatherReturns
    \/ GatherRaises

SpecMulti == InitMulti /\ [][NextSinksUp]_vars

\* run_integration over a collection with documents that fail to serialize
\* or to flatten; the sinks are up
InitFaulty == FlattenIdle /\ TrackerInit /\ ThreadsIdle /\ PipelineInitFaulty

SpecFaulty == InitFaulty /\ [][NextSinksUp]_vars

(***************************************************************************)
(* C1: under any interleaving of add_batch_schema and get_unified_schema,  *)
(* the unified set never shrinks, and the set a snapshot copies is exactly  *)
(* the union of the column sets of the observe calls that have returned.    *)
(***************************************************************************)
SnapshotIsUnion ==
    \A t \in Threads : th_pc[t] = "get_release" => th_ret[t] = UNION completed

C1_UnionNeverShrinks ==
    /\ []SnapshotIsUnion
    /\ [][all_fields \subseteq all_fields']_vars

\* observe({A,B}) and observe({B,C}) have returned and a snapshot is {A,B,C}
C1_Witness ==
    /\ {ColA, ColB} \in completed
    /\ {ColB, ColC} \in completed
    /\ \E t \in Threads : th_pc[t] = "get_release" /\ th_ret[t] = {ColA, ColB, ColC}

(***************************************************************************)
(* C2: the unified-schema snapshot a flush is built from contains every     *)
(* column of every batch of that flush, also when field collection failed   *)
(* for a batch.                                                             *)
(***************************************************************************)
C2_SnapshotCoversFlushedBatches ==
    \A c \in collections :
        processed_batches[c] # <<>> =>
            \A i \in DOMAIN all_batches[c] :
                BatchFields(all_batches[c][i]) \subseteq final_fields[c]

(***************************************************************************)
(* C3: after batch assembly every output row of every batch has every       *)
(* column of the unified schema, holding null exactly where the row's        *)
(* document did not produce the column.                                      *)
(***************************************************************************)
C3_EveryRowHasEveryColumn ==
    \A c \in collections :
        \A i \in DOMAIN processed_batches[c] :
            LET df == processed_batches[c][i]
                flat == all_batches[c][i]
            IN /\ DOMAIN df.rows = DOMAIN flat
               /\ Len(df.cols) = 1 + Cardinality(final_fields[c])
               /\ \A r \in DOMAIN df.rows :
                     /\ Len(df.rows[r]) = Len(df.cols)
                     /\ \A f \in final_fields[c] :
                           LET at == ColumnIndex(df, sanitize_column_name(f))
                           IN /\ at # 0
                              /\ df.rows[r][at] = IF f \in DOMAIN flat[r] THEN "value"
                                                  ELSE "null"

\* the unified schema has A, B and C, and a batch whose rows have only A and B
\* was assembled with a null C in every row
C3_Witness ==
    \E c \in collections :
        /\ {ColA, ColB, ColC} \subseteq final_fields[c]
        /\ \E i \in DOMAIN processed_batches[c] :
              \A r \in DOMAIN processed_batches[c][i].rows :
                  /\ DOMAIN all_batches[c][i][r] \cap {ColA, ColB, ColC} = {ColA, ColB}
                  /\ CellOf(processed_batches[c][i], r, ColC) = "null"
                  /\ CellOf(processed_batches[c][i], r, ColA) = "value"

(***************************************************************************)
(* C4: flatten_json records one entry per scalar leaf of the document: no   *)
(* two leaves map to the same key, no leaf value is overwritten or lost.    *)
(***************************************************************************)
C4_OneKeyPerLeaf ==
    fl_pc = "done" => Cardinality(DOMAIN fl_out) = LeafCount(fl_doc)

(***************************************************************************)
(* C5: in every warehouse write attempt that reaches its load step, the      *)
(* ALTERs issued after the introspection are exactly one per batch column    *)
(* absent from the introspected columns and none for a column present, so    *)
(* the table's columns include the batch's when the load starts.             *)
(***************************************************************************)
BatchColumns(c) == {UpperStr(df_final[c].cols[i]) : i \in DOMAIN df_final[c].cols}

C5_OneAlterPerMissingColumn ==
    \A c \in collections :
        at_load[c].started =>
            /\ Range(alters[c]) = BatchColumns(c) \ existing_cols[c]
            /\ Len(alters[c]) = Cardinality(Range(alters[c]))
            /\ BatchColumns(c) \subseteq at_load[c].tbl.cols

\* an attempt on a table that had A and B reached its load step after an ALTER
\* for C and none for A
C5_Witness ==
    \E c \in collections :
        /\ at_load[c].started
        /\ ColA \in existing_cols[c]
        /\ ColC \in Range(alters[c])
        /\ ColA \notin Range(alters[c])

(***************************************************************************)
(* C6: across the warehouse writes and their retries no column the target    *)
(* table had before the write is dropped: the table's columns only grow.     *)
(***************************************************************************)
C6_TableSchemaOnlyGrows ==
    \A c \in collections : table0[c].cols \subseteq table[c].cols

(***************************************************************************)
(* C7: when the load step starts, every column the introspection found on    *)
(* the target table is a column of the batch handed to the load (added as a  *)
(* null column when the batch lacked it).                                    *)
(***************************************************************************)
C7_TableColumnsBackfilled ==
    \A c \in collections :
        at_load[c].started => existing_cols[c] \subseteq BatchColumns(c)

(***************************************************************************)
(* C8: a sink write that raised on its first two attempts and returned on    *)
(* the third is a success for its caller, and the sink holds what a single   *)
(* successful write of the batch leaves.                                     *)
(***************************************************************************)
\* _write_to_snowflake run once, without an error, on a table
SingleWrite(tbl, df) ==
    LET created == CreateIfNotExists(tbl)
        missing == MissingColumns(df, created.cols)
    IN LoadOverwrite(AlterAll(created, missing, Len(missing)), df)

C8_ThirdAttemptIsOneWrite ==
    \A c \in collections :
        /\ (adls_attempts[c] = 3 /\ sf_attempts[c] = 0 /\ outcome[c] = "ok") =>
               /\ pc[c] = "snowflake"
               /\ adls[c] = DeltaOverwrite(df_final[c])
        /\ (sf_attempts[c] = 3 /\ outcome[c] = "ok") =>
               /\ pc[c] = "completed"
               /\ adls[c] = DeltaOverwrite(df_final[c])
               /\ table[c] = SingleWrite(table0[c], df_final[c])

\* both sinks were written on a third attempt, the warehouse on a table that
\* was there before
C8_Witness ==
    \E c \in collections :
        /\ adls_attempts[c] = 3
        /\ sf_attempts[c] = 3
        /\ outcome[c] = "ok"
        /\ pc[c] = "completed"
        /\ table0[c].exists
        /\ table[c].rows # <<>>

(***************************************************************************)
(* C9: a sink write is attempted at most 3 times; when the last of them      *)
(* raised, the collection's processing has failed, and run_integration does  *)
(* not return normally: the caller gets the error.                           *)
(***************************************************************************)
C9_ThreeAttemptsThenFailed ==
    \A c \in collections :
        /\ adls_attempts[c] <= 3
        /\ sf_attempts[c] <= 3
        /\ (outcome[c] = "raised" /\ adls_attempts[c] = 3 /\ sf_attempts[c] = 0) =>
               pc[c] = "failed"
        /\ (outcome[c] = "raised" /\ sf_attempts[c] = 3) => pc[c] = "failed"
        /\ pc[c] = "failed" => run_result \in {"running", "error"}

\* the warehouse write raised three times and run_integration raised
C9_Witness ==
    \E c \in collections :
        /\ sf_attempts[c] = 3
        /\ outcome[c] = "raised"
        /\ pc[c] = "failed"
        /\ run_result = "error"

(***************************************************************************)
(* C10: the paging loop delivers every document in exactly one page of at    *)
(* most batch_size documents, whatever the identifiers, and has delivered    *)
(* them all when it leaves the loop.                                         *)
(***************************************************************************)
C10_EveryDocumentInOnePage ==
    \A c \in collections :
        /\ \A i \in DOMAIN pages[c] : Len(pages[c][i]) <= batch_size
        /\ \A i, j \in DOMAIN pages[c] :
              i # j => Range(pages[c][i]) \cap Range(pages[c][j]) = {}
        /\ pc[c] \in {"assemble", "adls", "snowflake", "completed", "returned"} =>
              UNION {Range(pages[c][i]) : i \in DOMAIN pages[c]}
                  = {IdOf(source[c][k]) : k \in DOMAIN source[c]}

(***************************************************************************)
(* C11: when several collections run and one fails, the others are not       *)
(* cancelled and the resources they share (the source client, the warehouse  *)
(* connection pool) are not closed while one of them is still in flight.     *)
(***************************************************************************)
InFlight(c) == pc[c] \in {"count", "page", "process", "collect", "assemble",
                          "adls", "snowflake"}

C11_SharedResourcesStayOpen ==
    (closed \/ mongo_closed) => \A c \in collections : ~InFlight(c)

(***************************************************************************)
(* C12: a document that fails to serialize or to flatten contributes no row  *)
(* and no column, and the other documents of its batch are processed: the    *)
(* flattened batch has one row per sound document, in order, with that       *)
(* document's flattened fields.                                              *)
(***************************************************************************)
Sound(d) == d.serializable /\ d.flattens

C12_FailedDocumentsSkipped ==
    \A c \in collections :
        (pc[c] = "collect" /\ ~df_flattened[c].is_none) =>
            LET sound == SelectSeq(batch[c], Sound)
            IN /\ Len(df_flattened[c].rows) = Len(sound)
               /\ \A r \in DOMAIN df_flattened[c].rows :
                     r <= Len(sound) =>
                        df_flattened[c].rows[r] = flatten_json(ToStringMap(sound[r].doc), <<>>)

(***************************************************************************)
(* C13: a snapshot never holds only part of one add_batch_schema call's      *)
(* columns: it holds every column of a call that has returned, and of a call *)
(* in progress it holds either all the columns or none but those that calls  *)
(* which have returned brought in.                                           *)
(***************************************************************************)
AddInProgress(u) ==
    th_pc[u] \in {"add_wait", "add_count", "add_store", "add_update", "add_release"}

C13_SnapshotSeesWholeCalls ==
    \A t \in Threads :
        th_pc[t] = "get_release" =>
            /\ \A fields \in completed : fields \subseteq th_ret[t]
            /\ \A u \in Threads \ {t} :
                  AddInProgress(u) =>
                     \/ th_fields[u] \subseteq th_ret[t]
                     \/ th_ret[t] \cap th_fields[u] \subseteq UNION completed

\* a snapshot {A, B} is taken while a call with {B, C} is in progress: it has
\* B, from the call with {A, B} that has returned, and not C
C13_Witness ==
    \E t, u \in Threads :
        /\ th_pc[t] = "get_release"
        /\ AddInProgress(u)
        /\ th_fields[u] = {ColB, ColC}
        /\ {ColA, ColB} \in completed
        /\ th_ret[t] = {ColA, ColB}

(***************************************************************************)
(* C14: under any interleaving of get_snowflake_connection,                  *)
(* return_snowflake_connection and close_connections the free list holds at  *)
(* most 5 connections, all different, none closed and none held by a caller, *)
(* and no connection is held by two callers; a checkout hands out an idle    *)
(* connection, removed from the list, when there is one and a new one        *)
(* otherwise; a check-in pools the connection when the list is below         *)
(* capacity and closes it otherwise.                                         *)
(***************************************************************************)
PoolSound ==
    /\ Len(pool) <= 5
    /\ \A i, j \in DOMAIN pool : i # j => pool[i] # pool[j]
    /\ Range(pool) \subseteq open_conns
    /\ \A conn \in 1..MaxConns :
          /\ held[conn] <= 1
          /\ held[conn] = 1 => conn \notin Range(pool)

CheckedOut(conn) ==
    held'[conn] > held[conn] =>
        IF pool # <<>>
        THEN conn \in Range(pool) /\ conn \notin Range(pool') /\ conn_count' = conn_count
        ELSE conn = conn_count + 1 /\ conn_count' = conn /\ conn \in open_conns'

CheckedIn(conn) ==
    held'[conn] < held[conn] =>
        IF Len(pool) < 5
        THEN pool' = Append(pool, conn) /\ open_conns' = open_conns
        ELSE pool' = pool /\ open_conns' = open_conns \ {conn}

C14_PoolBoundedAndExclusive ==
    /\ []PoolSound
    /\ [][\A conn \in 1..MaxConns : CheckedOut(conn) /\ CheckedIn(conn)]_vars

\* the free list is full and a sixth connection was closed at its check-in
C14_Witness ==
    /\ Len(pool) = 5
    /\ conn_count = 6
    /\ ~closed
    /\ \E conn \in 1..conn_count : conn \notin open_conns /\ held[conn] = 0

(***************************************************************************)
(* C15: when one DataIntegrator processes several collections, the unified   *)
(* schema a collection's flush is built with, and the columns of the frame   *)
(* it writes, hold only columns observed in batches of that collection (and  *)
(* the payload and metadata columns every frame has): no column of another   *)
(* collection appears.                                                       *)
(***************************************************************************)
OwnFields(c) == UNION {BatchFields(all_batches[c][i]) : i \in DOMAIN all_batches[c]}

FrameColumns == {full_json_payload, ETL_CREATED_DATE, ETL_LAST_UPDATE_DATE, CREATED_BY,
                 TO_PROCESS, EDW_EXTERNAL_SOURCE_SYSTEM}

C15_SchemaIsPerCollection ==
    \A c \in collections :
        /\ final_fields[c] \subseteq OwnFields(c)
        /\ \A i \in DOMAIN df_final[c].cols :
              df_final[c].cols[i] \in OwnFields(c) \cup FrameColumns

====
